---------------------------- MODULE Spec2Model ----------------------------
(***************************************************************************)
(* gemini-investor: a Telegram front end (telegram_bot.py), the agent      *)
(* factory (common.py) and the option wrappers                             *)
(* (gemini_investor/options_calls.py).                                     *)
(*                                                                         *)
(* Four specifications share the module's variables:                       *)
(*   Spec         the chat handlers of telegram_bot.py                     *)
(*   SpecOptions  get_option_contract                                      *)
(*   SpecOrders   the order-submitting wrappers                            *)
(*   SpecClient   common.create_client and the shared action registry      *)
(***************************************************************************)
EXTENDS Integers, Sequences, FiniteSets

VARIABLES
    CLIENTS,        \* telegram_bot.CLIENTS: dict chat_id -> agent (a function on its keys)
    agents,         \* every GeminiChatClient constructed by message(), in creation order
    turns,          \* every clt.send_message(text) call that returned
    replies,        \* every reply_text delivered on the transport
    tasks,          \* handler coroutines dispatched by the Application
    contracts,      \* the list get_option_contracts returns to get_option_contract
    query,          \* arguments and result of the last get_option_contract call
    calls,          \* each order wrapper call: its arguments and the helper call it made
    all_functions,  \* common.all_functions, the shared module-level list
    created         \* argument lists common.create_client handed to the agent factory

botVars == <<CLIENTS, agents, turns, replies, tasks>>
optVars == <<contracts, query>>
ordVars == <<calls>>
cliVars == <<all_functions, created>>
vars == <<CLIENTS, agents, turns, replies, tasks, contracts, query, calls,
          all_functions, created>>

(***************************************************************************)
(* Bounds                                                                  *)
(***************************************************************************)
MaxEvents == 2
MaxContracts == 3
MaxOrders == 2
MaxClients == 3

(***************************************************************************)
(* Python values.  None is the empty set and an optional value a set of at *)
(* most one element.  A str is a sequence of one-character strings.        *)
(***************************************************************************)
None == {}

Some(x) == {x}

The(s) == CHOOSE x \in s : TRUE

Range(s) == {s[i] : i \in 1..Len(s)}

DigitChars == <<"0", "1", "2", "3", "4", "5", "6", "7", "8", "9">>

IsDigit(c) == \E d \in 1..10 : DigitChars[d] = c

DigitVal(c) == (CHOOSE d \in 1..10 : DigitChars[d] = c) - 1

RECURSIVE NatStr(_)
NatStr(n) ==
    IF n < 10 THEN <<DigitChars[n + 1]>>
    ELSE Append(NatStr(n \div 10), DigitChars[(n % 10) + 1])

\* str(i) of a Python int
Str(i) == IF i < 0 THEN <<"-">> \o NatStr(0 - i) ELSE NatStr(i)

\* Typed Python values.  A float holds its value in tenths (v = 25 is 2.5);
\* a str holds its characters.
PyNone == [t |-> "none", v |-> 0]

PyInt(n) == [t |-> "int", v |-> n]

PyFloat(tenths) == [t |-> "float", v |-> tenths]

PyStr(chars) == [t |-> "str", v |-> chars]

\* the result of a call that returned, and of one that raised
Ok(x) == [ok |-> TRUE, val |-> x]

Raise(e) == [ok |-> FALSE, val |-> e]

\* bool(x)
Truthy(x) ==
    CASE x.t = "none" -> FALSE
      [] x.t = "str" -> Len(x.v) > 0
      [] OTHER -> x.v # 0

AllDigits(chars) == Len(chars) > 0 /\ \A i \in 1..Len(chars) : IsDigit(chars[i])

RECURSIVE DigitsVal(_)
DigitsVal(chars) ==
    IF chars = <<>> THEN 0
    ELSE 10 * DigitsVal(SubSeq(chars, 1, Len(chars) - 1)) + DigitVal(chars[Len(chars)])

\* position of the first "." of a str, 0 when it has none
DotAt(chars) ==
    IF \E i \in 1..Len(chars) : chars[i] = "."
    THEN CHOOSE i \in 1..Len(chars) :
            chars[i] = "." /\ \A j \in 1..(i - 1) : chars[j] # "."
    ELSE 0

\* int(x): a str must be a run of decimal digits, a float is truncated
ToInt(x) ==
    CASE x.t = "int" -> Ok(x)
      [] x.t = "float" -> Ok(PyInt(x.v \div 10))
      [] x.t = "str" -> IF AllDigits(x.v) THEN Ok(PyInt(DigitsVal(x.v)))
                        ELSE Raise("ValueError")
      [] OTHER -> Raise("TypeError")

\* float(x): a str is digits with at most one fractional digit after a "."
ToFloat(x) ==
    CASE x.t = "int" -> Ok(PyFloat(10 * x.v))
      [] x.t = "float" -> Ok(x)
      [] x.t = "str" ->
            LET d == DotAt(x.v)
                whole == IF d = 0 THEN x.v ELSE SubSeq(x.v, 1, d - 1)
                frac == IF d = 0 THEN <<>> ELSE SubSeq(x.v, d + 1, Len(x.v))
            IN  IF AllDigits(whole) /\ (frac = <<>> \/ (Len(frac) = 1 /\ AllDigits(frac)))
                THEN Ok(PyFloat(10 * DigitsVal(whole) + DigitsVal(frac)))
                ELSE Raise("ValueError")
      [] OTHER -> Raise("TypeError")

IsNumber(x) == x.t \in {"int", "float"}

\* the value of an int or a float, in tenths
Tenths(x) == IF x.t = "int" THEN 10 * x.v ELSE x.v

Abs(n) == IF n < 0 THEN 0 - n ELSE n

(***************************************************************************)
(* common.py                                                               *)
(***************************************************************************)
\* all_functions as built at import: the functions defined in
\* gemini_investor.options_calls, in the order of inspect.getmembers (by
\* name); the imported helpers are excluded by the __module__ test.  The
\* other four modules of the list are not part of the sources at hand and
\* contribute their functions after these.
RegistryNames ==
    <<"buy_option_by_market_price", "get_option_contract",
      "sell_option_by_limit_price", "sell_option_by_market_price",
      "sell_option_by_market_price_with_option_ticker">>

\* a function object: a module-level function is bound to no chat, a push
\* callback is a closure over the chat it sends to
Registry ==
    [i \in 1..Len(RegistryNames) |->
        [module |-> "gemini_investor.options_calls", name |-> RegistryNames[i],
         send_to |-> None]]

(***************************************************************************)
(* telegram_bot.py                                                         *)
(***************************************************************************)
\* chat identifiers the transport can deliver updates from (a group chat has
\* a negative identifier)
Chats == {7, 12, -7}

\* [str(id) for id in os.getenv('TELEGRAM_CHAT_IDS').split(',')] for "7,12"
chat_ids == << <<"7">>, <<"1", "2">> >>

Kinds == {"start", "get_chat_id", "text"}

\* `str(update.message.chat_id) not in chat_ids`
NotInChatIds(chat_id) == Str(chat_id) \notin Range(chat_ids)

\* CLIENTS.get(chat_id, None)
ClientsGet(chat_id) ==
    IF chat_id \in DOMAIN CLIENTS THEN Some(CLIENTS[chat_id]) ELSE None

\* Mutant of ClientsSet: the map is rebuilt with the one entry
ClientsSetOnly(chat_id, clt) == [k \in {chat_id} |-> clt]

\* CLIENTS[chat_id] = clt
ClientsSet(chat_id, clt) ==
    [k \in (DOMAIN CLIENTS) \cup {chat_id} |->
        IF k = chat_id THEN clt ELSE CLIENTS[k]]

\* client.GeminiChatClient(all_functions, model, debug=False): the agent is
\* built from the bot module's own function list and model; it gets no
\* callback and no storage key.  owner records the chat whose handler built it.
NewAgent(chat_id) ==
    [owner |-> chat_id, functions |-> "telegram_bot.all_functions",
     callback |-> None, gcs_blob |-> None]

SetTask(t, pc, clt) == [tasks EXCEPT ![t].pc = pc, ![t].clt = clt]

\* update.message.chat_id, defined when update.message is not None
ChatId(u) == The(u.message)

\* The Application hands an update to the handler registered for its kind.
\* message is None for an update whose `message` attribute is None (an edited
\* message, which carries its text in `edited_message`), else the Message,
\* modelled by its chat_id.  Handlers run on one event loop and may overlap
\* only at their await points.
Dispatch(kind, msg) ==
    /\ Len(tasks) < MaxEvents
    /\ tasks' = Append(tasks, [kind |-> kind, message |-> msg,
                               pc |-> "ready", clt |-> None])
    /\ UNCHANGED <<CLIENTS, agents, turns, replies>>
    /\ UNCHANGED <<optVars, ordVars, cliVars>>

\* Mutant of start: the allow-list test is missing
start_unchecked(t) ==
    /\ tasks[t].kind = "start" /\ tasks[t].pc = "ready"
    /\ tasks' = SetTask(t, IF tasks[t].message = None THEN "raised"
                           ELSE "await_reply", None)
    /\ UNCHANGED <<CLIENTS, agents, turns, replies>>
    /\ UNCHANGED <<optVars, ordVars, cliVars>>

\* start(update, context) up to its await; update.message.chat_id raises
\* AttributeError when update.message is None
start(t) ==
    /\ tasks[t].kind = "start" /\ tasks[t].pc = "ready"
    /\ tasks' = SetTask(t, IF tasks[t].message = None THEN "raised"
                           ELSE IF NotInChatIds(ChatId(tasks[t])) THEN "returned"
                           ELSE "await_reply", None)
    /\ UNCHANGED <<CLIENTS, agents, turns, replies>>
    /\ UNCHANGED <<optVars, ordVars, cliVars>>

\* get_chat_id(update, context) up to its await
get_chat_id(t) ==
    /\ tasks[t].kind = "get_chat_id" /\ tasks[t].pc = "ready"
    /\ tasks' = SetTask(t, IF tasks[t].message = None THEN "raised"
                           ELSE "await_reply", None)
    /\ UNCHANGED <<CLIENTS, agents, turns, replies>>
    /\ UNCHANGED <<optVars, ordVars, cliVars>>

\* The part of message() after the allow-list test, for the agent `clt`
\* found (or None): lines 51-54.
GetOrCreateAndSend(t, clt, ctor_ok, send_ok) ==
    LET u == tasks[t]
        new == Len(agents) + 1
        used == IF clt = None THEN new ELSE The(clt)
    IN  IF clt = None /\ ~ctor_ok
        THEN /\ tasks' = SetTask(t, "raised", None)
             /\ UNCHANGED <<CLIENTS, agents, turns>>
        ELSE /\ agents' = IF clt = None
                          THEN Append(agents, NewAgent(ChatId(u)))
                          ELSE agents
             /\ CLIENTS' = IF clt = None
                           THEN ClientsSet(ChatId(u), new)
                           ELSE CLIENTS
             /\ IF send_ok
                THEN /\ turns' = turns \cup {[chat_id |-> ChatId(u),
                                              agent |-> used, task |-> t]}
                     /\ tasks' = SetTask(t, "await_reply", Some(used))
                ELSE /\ turns' = turns
                     /\ tasks' = SetTask(t, "raised", Some(used))

\* Mutant of MessageBody: the lookup result is ignored, an agent is built
\* on every message
MessageBodyAlwaysNew(t, ctor_ok, send_ok) ==
    LET u == tasks[t]
    IN  IF u.message # None /\ NotInChatIds(ChatId(u))
        THEN /\ tasks' = SetTask(t, "returned", None)
             /\ UNCHANGED <<CLIENTS, agents, turns>>
        ELSE IF u.message = None
        THEN /\ tasks' = SetTask(t, "raised", None)
             /\ UNCHANGED <<CLIENTS, agents, turns>>
        ELSE GetOrCreateAndSend(t, None, ctor_ok, send_ok)

\* Mutant of MessageBody: the allow-list test is missing
MessageBodyUnchecked(t, ctor_ok, send_ok) ==
    LET u == tasks[t]
    IN  IF u.message = None
        THEN /\ tasks' = SetTask(t, "raised", None)
             /\ UNCHANGED <<CLIENTS, agents, turns>>
        ELSE GetOrCreateAndSend(t, ClientsGet(ChatId(u)), ctor_ok, send_ok)

\* message(update, context), lines 48-54: everything before the await runs
\* without suspension.  ctor_ok and send_ok are whether the agent constructor
\* and clt.send_message return rather than raise.  `if not clt` takes an
\* agent object to be truthy.
MessageBody(t, ctor_ok, send_ok) ==
    LET u == tasks[t]
    IN  IF u.message # None /\ NotInChatIds(ChatId(u))
        THEN /\ tasks' = SetTask(t, "returned", None)
             /\ UNCHANGED <<CLIENTS, agents, turns>>
        ELSE IF u.message = None
        THEN /\ tasks' = SetTask(t, "raised", None)
             /\ UNCHANGED <<CLIENTS, agents, turns>>
        ELSE GetOrCreateAndSend(t, ClientsGet(ChatId(u)), ctor_ok, send_ok)

\* Mutant of message: the handler is suspended between the lookup of line 50
\* and the test of line 51 (pc "looked"), as if the lookup were awaited
message_suspending(t) ==
    /\ tasks[t].kind = "text"
    /\ \/ /\ tasks[t].pc = "ready"
          /\ IF tasks[t].message = None
             THEN tasks' = SetTask(t, "raised", None)
             ELSE IF NotInChatIds(ChatId(tasks[t]))
             THEN tasks' = SetTask(t, "returned", None)
             ELSE tasks' = SetTask(t, "looked", ClientsGet(ChatId(tasks[t])))
          /\ UNCHANGED <<CLIENTS, agents, turns>>
       \/ /\ tasks[t].pc = "looked"
          /\ \E ctor_ok \in BOOLEAN, send_ok \in BOOLEAN :
                GetOrCreateAndSend(t, tasks[t].clt, ctor_ok, send_ok)
    /\ replies' = replies
    /\ UNCHANGED <<optVars, ordVars, cliVars>>

message(t) ==
    /\ tasks[t].kind = "text" /\ tasks[t].pc = "ready"
    /\ \E ctor_ok \in BOOLEAN, send_ok \in BOOLEAN : MessageBody(t, ctor_ok, send_ok)
    /\ replies' = replies
    /\ UNCHANGED <<optVars, ordVars, cliVars>>

\* `await update.message.reply_text(...)` completes: the reply is delivered
\* to the chat of the update, or the transport raises.
reply_text(t, delivered) ==
    /\ tasks[t].pc = "await_reply"
    /\ replies' = IF delivered
                  THEN replies \cup {[to |-> ChatId(tasks[t]),
                                      kind |-> tasks[t].kind, task |-> t]}
                  ELSE replies
    /\ tasks' = SetTask(t, IF delivered THEN "done" ELSE "raised", tasks[t].clt)
    /\ UNCHANGED <<CLIENTS, agents, turns>>
    /\ UNCHANGED <<optVars, ordVars, cliVars>>

IdleOptions == contracts = <<>> /\ query = <<>>
IdleOrders == calls = <<>>

IdleClient == all_functions = Registry /\ created = <<>>

IdleBot ==
    /\ CLIENTS = [k \in {} |-> 0] /\ agents = <<>> /\ turns = {}
    /\ replies = {} /\ tasks = <<>>

Init ==
    /\ IdleBot
    /\ IdleOptions /\ IdleOrders /\ IdleClient

Next ==
    \/ \E kind \in Kinds, msg \in {None} \cup {Some(c) : c \in Chats} :
          Dispatch(kind, msg)
    \/ \E t \in 1..Len(tasks) : start(t)
    \/ \E t \in 1..Len(tasks) : get_chat_id(t)
    \/ \E t \in 1..Len(tasks) : message(t)
    \/ \E t \in 1..Len(tasks), delivered \in BOOLEAN : reply_text(t, delivered)

Spec == Init /\ [][Next]_vars

(***************************************************************************)
(* gemini_investor/options_calls.py: get_option_contract                   *)
(***************************************************************************)
\* what an OptionContract of the trading client can hold: open_interest is
\* an optional str, strike_price a float, expiration_date a date
OpenInterests == {PyNone, PyStr(<<"0">>), PyStr(<<"1">>)}

Strikes == {PyFloat(10), PyFloat(30)}

Expirations == {"2025-06-20", "2025-07-18"}

OptionContracts ==
    [open_interest : OpenInterests, strike_price : Strikes,
     expiration_date : Expirations]

SeqsUpTo(S, n) == UNION {[1..k -> S] : k \in 0..n}

\* arguments the agent can pass
ExpirationArgs == {None, Some("2025-06-20")}

StrikeArgs == {PyNone, PyInt(0), PyInt(2), PyStr(<<"2">>)}

MinOpenInterestArgs == {PyInt(0), PyInt(1), PyStr(<<"1">>)}

\* [c for c in s if P(c)], in the order of s
RECURSIVE FilterOpenInterest(_, _)
FilterOpenInterest(s, min) ==
    IF s = <<>> THEN <<>>
    ELSE LET c == s[1]
             rest == FilterOpenInterest(Tail(s), min)
         IN  IF Truthy(c.open_interest) /\ ToInt(c.open_interest).val.v >= min
             THEN <<c>> \o rest ELSE rest

RECURSIVE FilterExpiration(_, _)
FilterExpiration(s, date) ==
    IF s = <<>> THEN <<>>
    ELSE LET rest == FilterExpiration(Tail(s), date)
         IN  IF s[1].expiration_date = date THEN <<s[1]>> \o rest ELSE rest

\* the sort key: abs(c.strike_price - strike_price), in tenths
StrikeDistance(c, strike_price) == Abs(Tenths(c.strike_price) - Tenths(strike_price))

\* one insertion of a stable sort: the item goes after every item whose key
\* is not greater
InsertByKey(sorted, c, strike_price) ==
    LET k == StrikeDistance(c, strike_price)
        before == {i \in 1..Len(sorted) : StrikeDistance(sorted[i], strike_price) <= k}
        n == Cardinality(before)
    IN  SubSeq(sorted, 1, n) \o <<c>> \o SubSeq(sorted, n + 1, Len(sorted))

\* sorted(s, key=lambda c: abs(c.strike_price - strike_price)): stable
RECURSIVE SortedByStrike(_, _)
SortedByStrike(s, strike_price) ==
    IF s = <<>> THEN <<>>
    ELSE InsertByKey(SortedByStrike(SubSeq(s, 1, Len(s) - 1), strike_price),
                     s[Len(s)], strike_price)

\* Mutant of MatchingContracts: `>` in place of `>=`
MatchingContractsStrict(cs, min) == FilterOpenInterest(cs, min + 1)

\* the list comprehension of line 47; int(c.open_interest) raises on an
\* open_interest that is not a number
MatchingContracts(cs, min) == FilterOpenInterest(cs, min)

\* get_option_contract, lines 32-55, on the list the trading client returned.
\* str(contract) is modelled by the contract.
GetOptionContract(cs, expiration_date, strike_price, min_open_interest) ==
    LET min == ToInt(min_open_interest)
    IN  IF ~min.ok THEN Raise(min.val)
        ELSE
        LET m1 == MatchingContracts(cs, min.val.v)
            m2 == IF expiration_date # None
                  THEN FilterExpiration(m1, The(expiration_date)) ELSE m1
        IN  IF Truthy(strike_price)
            THEN IF m2 = <<>> THEN Ok(None)
                 ELSE IF ~IsNumber(strike_price) THEN Raise("TypeError")
                 ELSE Ok(Some(SortedByStrike(m2, strike_price)[1]))
            ELSE Ok(IF m2 = <<>> THEN None ELSE Some(m2[1]))

\* the agent calls get_option_contract
get_option_contract(expiration_date, strike_price, min_open_interest) ==
    /\ query = <<>>
    /\ query' = <<[expiration_date |-> expiration_date,
                   strike_price |-> strike_price,
                   min_open_interest |-> min_open_interest,
                   result |-> GetOptionContract(contracts, expiration_date,
                                                strike_price, min_open_interest)]>>
    /\ UNCHANGED contracts
    /\ UNCHANGED <<botVars, ordVars, cliVars>>

InitOptions ==
    /\ contracts \in SeqsUpTo(OptionContracts, MaxContracts)
    /\ query = <<>>
    /\ IdleBot /\ IdleOrders /\ IdleClient

NextOptions ==
    \E e \in ExpirationArgs, s \in StrikeArgs, m \in MinOpenInterestArgs :
        get_option_contract(e, s, m)

SpecOptions == InitOptions /\ [][NextOptions]_vars

(***************************************************************************)
(* gemini_investor/options_calls.py: the order wrappers                    *)
(***************************************************************************)
\* create_option_ticker(underlying_symbol, expiration_date, option_type,
\* strike_price): the ticker is determined by the four arguments
CreateOptionTicker(underlying_symbol, expiration_date, option_type, strike_price) ==
    [underlying_symbol |-> underlying_symbol, expiration_date |-> expiration_date,
     option_type |-> option_type, strike_price |-> Some(strike_price)]

\* a ticker the caller names directly
GivenTicker ==
    [underlying_symbol |-> "AAPL", expiration_date |-> "2025-06-20",
     option_type |-> "C", strike_price |-> None]

\* a call of one of the alpaca_utils submit helpers with the arguments the
\* wrapper passes; an argument the wrapper does not pass is None
HelperCall(fn, ticker, qty, limit_price, time_in_force, side) ==
    [fn |-> fn, ticker |-> ticker, qty |-> qty, limit_price |-> limit_price,
     time_in_force |-> time_in_force, side |-> side]

\* buy_option_by_market_price, lines 73-81
BuyOptionByMarketPrice(underlying_symbol, expiration_date, option_type, strike_price, qty) ==
    LET strike == ToFloat(strike_price)
        n == ToInt(qty)
    IN  IF ~strike.ok THEN Raise(strike.val)
        ELSE IF ~n.ok THEN Raise(n.val)
        ELSE Ok(Some(HelperCall("submit_market_order",
                    CreateOptionTicker(underlying_symbol, expiration_date,
                                       option_type, strike.val),
                    n.val, None, Some("DAY"), Some("BUY"))))

\* sell_option_by_market_price_with_option_ticker, line 93
SellOptionByMarketPriceWithOptionTicker(option_ticker, qty) ==
    Ok(Some(HelperCall("submit_sell_market_order", option_ticker, qty,
                       None, None, None)))

\* sell_option_by_market_price, lines 112-113
SellOptionByMarketPrice(underlying_symbol, expiration_date, option_type, strike_price, qty) ==
    SellOptionByMarketPriceWithOptionTicker(
        CreateOptionTicker(underlying_symbol, expiration_date, option_type,
                           strike_price), qty)

\* sell_option_by_limit_price, lines 129-131
SellOptionByLimitPrice(option_ticker, qty, limit_price) ==
    LET n == ToInt(qty)
        limit == ToFloat(limit_price)
    IN  IF ~n.ok THEN Raise(n.val)
        ELSE IF ~limit.ok THEN Raise(limit.val)
        ELSE Ok(Some(HelperCall("submit_limit_sell_order", option_ticker,
                                n.val, Some(limit.val), Some("DAY"), None)))

\* arguments the agent can pass
StrikePriceArgs == {PyStr(<<"1", "5", "0">>), PyFloat(1500), PyInt(150), PyStr(<<"x">>)}

QtyArgs == {PyStr(<<"2">>), PyInt(2), PyStr(<<"2", ".", "5">>), PyFloat(25)}

LimitPriceArgs == {PyStr(<<"1", ".", "5">>), PyFloat(15), PyInt(2)}

Record(wrapper, strike_price, qty, limit_price, result) ==
    /\ Len(calls) < MaxOrders
    /\ calls' = Append(calls, [wrapper |-> wrapper, strike_price |-> strike_price,
                               qty |-> qty, limit_price |-> limit_price,
                               result |-> result])
    /\ UNCHANGED <<botVars, optVars, cliVars>>

buy_option_by_market_price(strike_price, qty) ==
    Record("buy_option_by_market_price", strike_price, qty, PyNone,
           BuyOptionByMarketPrice("AAPL", "2025-06-20", "C", strike_price, qty))

sell_option_by_market_price_with_option_ticker(qty) ==
    Record("sell_option_by_market_price_with_option_ticker", PyNone, qty, PyNone,
           SellOptionByMarketPriceWithOptionTicker(GivenTicker, qty))

sell_option_by_market_price(strike_price, qty) ==
    Record("sell_option_by_market_price", strike_price, qty, PyNone,
           SellOptionByMarketPrice("AAPL", "2025-06-20", "C", strike_price, qty))

sell_option_by_limit_price(qty, limit_price) ==
    Record("sell_option_by_limit_price", PyNone, qty, limit_price,
           SellOptionByLimitPrice(GivenTicker, qty, limit_price))

InitOrders ==
    /\ calls = <<>>
    /\ IdleBot /\ IdleOptions /\ IdleClient

NextOrders ==
    \/ \E s \in StrikePriceArgs, q \in QtyArgs : buy_option_by_market_price(s, q)
    \/ \E q \in QtyArgs : sell_option_by_market_price_with_option_ticker(q)
    \/ \E s \in StrikePriceArgs, q \in QtyArgs : sell_option_by_market_price(s, q)
    \/ \E q \in QtyArgs, l \in LimitPriceArgs : sell_option_by_limit_price(q, l)

SpecOrders == InitOrders /\ [][NextOrders]_vars

(***************************************************************************)
(* common.py: create_client                                                *)
(***************************************************************************)
\* list.copy(): a new list with the same items
Copy(list) == list

\* f"jobs_{user_id}.json"
GcsBlob(user_id) == <<"jobs_">> \o Str(user_id) \o <<".json">>

\* the push callbacks a caller can pass: one closure per chat it sends to
Callbacks ==
    {[module |-> "caller", name |-> "send_message", send_to |-> Some(c)] : c \in Chats}

\* Mutant of create_client: the callback is appended to the shared list
create_client_shared(user_id, function_to_send_message) ==
    /\ Len(created) < MaxClients
    /\ all_functions' = Append(all_functions, function_to_send_message)
    /\ created' = Append(created, [functions |-> all_functions',
                                   callback |-> function_to_send_message,
                                   gcs_blob |-> GcsBlob(user_id)])
    /\ UNCHANGED <<botVars, optVars, ordVars>>

\* create_client(user_id, function_to_send_message), lines 71-74: the list
\* handed to generate_chat_client_from_functions_list is a copy of
\* all_functions with the callback appended
create_client(user_id, function_to_send_message) ==
    /\ Len(created) < MaxClients
    /\ LET copy_of_all_functions == Append(Copy(all_functions), function_to_send_message)
       IN  created' = Append(created, [functions |-> copy_of_all_functions,
                                       callback |-> function_to_send_message,
                                       gcs_blob |-> GcsBlob(user_id)])
    /\ all_functions' = all_functions
    /\ UNCHANGED <<botVars, optVars, ordVars>>

InitClient ==
    /\ all_functions = Registry
    /\ created = <<>>
    /\ IdleBot /\ IdleOptions /\ IdleOrders

NextClient ==
    \E user_id \in Chats, f \in Callbacks : create_client(user_id, f)

SpecClient == InitClient /\ [][NextClient]_vars

(***************************************************************************)
(* Properties of the chat handlers (specification Spec)                    *)
(***************************************************************************)
\* the identity is one of the configured allow-list
Listed(c) == \E i \in 1..Len(chat_ids) : chat_ids[i] = Str(c)

Entry(C, c) == IF c \in DOMAIN C THEN {C[c]} ELSE {}

AgentsOf(c) == {a \in 1..Len(agents) : agents[a].owner = c}

\* C1: once an identity has a session, the handler never replaces or removes
\* the stored agent and builds no second agent for that identity, and every
\* turn of the identity is handled by the stored agent.
C1_SameAgent ==
    /\ [](\A x \in turns : Entry(CLIENTS, x.chat_id) = {x.agent})
    /\ [][/\ \A c \in DOMAIN CLIENTS : Entry(CLIENTS', c) = {CLIENTS[c]}
          /\ \A a \in 1..Len(agents') :
                a > Len(agents) => agents'[a].owner \notin DOMAIN CLIENTS]_vars

C1_Witness ==
    \E x \in turns, y \in turns :
        x.task # y.task /\ x.chat_id = y.chat_id /\ x.agent = y.agent

\* C2: a step of a text handler whose identity is not allow-listed sends no
\* reply, builds no agent, invokes no agent and leaves the session map as it
\* was.
C2_UnlistedTextIgnored ==
    [][\A t \in 1..Len(tasks) :
          (/\ tasks[t].kind = "text"
           /\ tasks[t].message # None
           /\ ~Listed(ChatId(tasks[t]))
           /\ tasks'[t] # tasks[t])
          => (/\ replies' = replies /\ agents' = agents /\ turns' = turns
              /\ CLIENTS' = CLIENTS
              /\ tasks'[t].pc = "returned")]_vars

C2_Witness ==
    /\ DOMAIN CLIENTS # {}
    /\ \E t \in 1..Len(tasks) :
          /\ tasks[t].kind = "text" /\ tasks[t].pc = "returned"
          /\ tasks[t].message # None /\ ~Listed(ChatId(tasks[t]))

C4_OtherEntriesUnchanged ==
    [][\A a \in Chats :
          Entry(CLIENTS', a) # Entry(CLIENTS, a)
          => \E t \in 1..Len(tasks) :
                tasks'[t] # tasks[t] /\ tasks[t].message = Some(a)]_vars

C4_Witness ==
    \E a \in DOMAIN CLIENTS, b \in DOMAIN CLIENTS : a # b /\ CLIENTS[a] < CLIENTS[b]

\* C7 as stated: every stored session's agent was built with a push callback
\* bound to the identity and a storage key derived from it.
C7_CallbackBound ==
    \A c \in DOMAIN CLIENTS :
        /\ agents[CLIENTS[c]].callback = Some(c)
        /\ agents[CLIENTS[c]].gcs_blob = Some(<<"jobs_">> \o Str(c) \o <<".json">>)

\* C9: handlers interleave only at the await of reply_text; at most one agent
\* is ever built per identity, and a text handler suspended at its await has
\* completed its agent call.
C9_OneAgentPerIdentity ==
    /\ \A c \in Chats : Cardinality(AgentsOf(c)) <= 1
    /\ \A t \in 1..Len(tasks) :
          (tasks[t].kind = "text" /\ tasks[t].pc = "await_reply")
             => \E x \in turns : x.task = t

C9_Witness ==
    \E t1 \in 1..Len(tasks), t2 \in 1..Len(tasks) :
        /\ t1 # t2
        /\ tasks[t1].kind = "text" /\ tasks[t2].kind = "text"
        /\ tasks[t1].message = tasks[t2].message
        /\ tasks[t1].pc = "await_reply" /\ tasks[t2].pc = "await_reply"

(***************************************************************************)
(* Properties of get_option_contract (specification SpecOptions)           *)
(***************************************************************************)
\* positions of the returned list whose contract has a truthy open_interest
\* of at least min
WithOpenInterest(min) ==
    {i \in 1..Len(contracts) :
        /\ contracts[i].open_interest.t = "str"
        /\ contracts[i].open_interest.v # <<>>
        /\ DigitsVal(contracts[i].open_interest.v) >= min}

\* positions that pass the open-interest and the expiration filter of call q
Passing(q) ==
    {i \in WithOpenInterest(ToInt(q.min_open_interest).val.v) :
        q.expiration_date # None =>
            contracts[i].expiration_date = The(q.expiration_date)}

\* the k-th smallest element of a set of positions
Kth(P, k) == CHOOSE i \in P : Cardinality({j \in P : j < i}) = k - 1

First(P) == Kth(P, 1)

\* the first position of P at the least distance from target strike S
Closest(P, S) ==
    CHOOSE i \in P : \A j \in P :
        \/ StrikeDistance(contracts[i], S) < StrikeDistance(contracts[j], S)
        \/ /\ StrikeDistance(contracts[i], S) = StrikeDistance(contracts[j], S)
           /\ i <= j

\* C5 as stated: for every numeric target strike S the call returns the
\* first contract, in the trading client's order, among those at the least
\* |strike - S| that pass the filters.
C5_ClosestStrike ==
    \A k \in 1..Len(query) :
        LET q == query[k]
        IN  IsNumber(q.strike_price) /\ ToInt(q.min_open_interest).ok
            => /\ q.result.ok
               /\ q.result.val = IF Passing(q) = {} THEN None
                                 ELSE Some(contracts[Closest(Passing(q), q.strike_price)])

\* C6 as stated: with min_open_interest=0, no expiration and no target
\* strike the call returns the first contract of the returned list.
C6_FirstOfReturnedList ==
    \A k \in 1..Len(query) :
        LET q == query[k]
        IN  (/\ q.min_open_interest = PyInt(0) /\ q.expiration_date = None
             /\ q.strike_price = PyNone /\ contracts # <<>>)
            => q.result.ok /\ q.result.val = Some(contracts[1])

\* C6, amended: the open-interest filter keeps, in the returned order,
\* exactly the contracts whose open_interest is truthy and at least the
\* minimum; without expiration and target strike the call returns the first
\* of them, and None exactly when no contract passes the filters.
C6_FirstWithOpenInterest ==
    \A k \in 1..Len(query) :
        LET q == query[k]
            min == ToInt(q.min_open_interest)
        IN  min.ok =>
            LET P == WithOpenInterest(min.val.v)
                m == MatchingContracts(contracts, min.val.v)
            IN  /\ Len(m) = Cardinality(P)
                /\ \A n \in 1..Len(m) : m[n] = contracts[Kth(P, n)]
                /\ (q.expiration_date = None /\ q.strike_price = PyNone)
                      => /\ q.result.ok
                         /\ q.result.val =
                               IF P = {} THEN None ELSE Some(contracts[First(P)])
                /\ q.result.ok => (q.result.val = None <=> Passing(q) = {})

C6_Witness ==
    /\ Len(query) = 1 /\ Len(contracts) >= 2
    /\ query[1].min_open_interest = PyInt(0)
    /\ query[1].expiration_date = None /\ query[1].strike_price = PyNone
    /\ contracts[1].open_interest = PyNone
    /\ contracts[1].strike_price # contracts[2].strike_price
    /\ query[1].result.ok /\ query[1].result.val = Some(contracts[2])

(***************************************************************************)
(* Properties of the order wrappers (specification SpecOrders)             *)
(***************************************************************************)
\* the argument is a numeric string, a number of the declared type, or not
\* an argument of the wrapper
NumericInput(x) == x.t # "str" \/ ToFloat(x).ok

\* C8 as stated: in every wrapper call whose strike, quantity and limit
\* price are numeric strings or numbers, the quantity passed on is an int
\* and the strike and the limit price passed on are floats.
C8_ArgumentsCoerced ==
    \A k \in 1..Len(calls) :
        LET c == calls[k]
        IN  (/\ c.qty.t \in {"str", "int"} /\ ToInt(c.qty).ok
             /\ NumericInput(c.strike_price) /\ NumericInput(c.limit_price))
            => /\ c.result.ok
               /\ \A h \in c.result.val :
                     /\ h.qty = ToInt(c.qty).val
                     /\ \A s \in h.ticker.strike_price : s.t = "float"
                     /\ \A l \in h.limit_price : l.t = "float"

(***************************************************************************)
(* Properties of create_client (specification SpecClient)                  *)
(***************************************************************************)
\* C10: create_client leaves the shared registry as it was built, with no
\* callback in it; each agent gets the registry followed by its own
\* callback, and no callback of an earlier call.
C10_RegistryUnchanged ==
    /\ all_functions = Registry
    /\ \A f \in Callbacks : f \notin Range(all_functions)
    /\ \A j \in 1..Len(created) :
          /\ created[j].functions = Registry \o <<created[j].callback>>
          /\ \A i \in 1..(j - 1) :
                created[i].callback # created[j].callback
                => created[i].callback \notin Range(created[j].functions)

C10_Witness ==
    /\ Len(created) >= 2
    /\ created[1].callback # created[2].callback
    /\ created[2].functions[Len(created[2].functions)] = created[2].callback

=============================================================================
